---- MODULE Spec2Model ----
(***************************************************************************)
(* Model of the reminder-extraction pipeline of reminders_app:             *)
(*   src/src/app/llm.py       GeminiLLM       (extraction client, parser)  *)
(*   src/src/app/ui.py        ReminderUI      (staging store, scan, commit)*)
(*   src/src/app/reminder.py  ReminderManager (commit executor)            *)
(*   src/src/app/database.py  MessageDB       (message source)             *)
(*                                                                         *)
(* A Python str is modelled as a sequence of one-character strings, so     *)
(* that strip, upper, split, startswith, replace and the regular           *)
(* expressions are computed character by character, as the code does.      *)
(***************************************************************************)
EXTENDS Integers, Sequences, FiniteSets, TLC

(***************************************************************************)
(* Bounds of the model.                                                    *)
(***************************************************************************)
\* number of messages the message source can ever hold
NumMsgs == 2
\* number of scans (process_messages) a behaviour may start
MaxScans == 2
\* number of staged reminders a scan may fill the staging store up to
MaxStaged == 2
\* number of lines of a remote reply drawn in the extraction specification
MaxReplyLines == 2
\* number of items handed to bulk_create_reminders
MaxItems == 3

(***************************************************************************)
(* Program constants.                                                      *)
(***************************************************************************)
\* llm.py:32  stop_after_attempt(3)
MaxAttempts == 3
\* llm.py:32  wait_exponential(multiplier=2, min=30, max=120)
WaitMultiplier == 2
WaitMin == 30
WaitMax == 120
\* tenacity: wait_exponential(..., exp_base=2) is the default base
ExpBase == 2
\* llm.py:165-166 and reminder.py:70-71
MaxTextLen == 200
KeepLen == 197
\* database.py:66  get_unread_imessages(self, limit=50)
UnreadLimit == 50

(***************************************************************************)
(* Characters and strings.                                                 *)
(***************************************************************************)
LowerLetters == <<"a","b","c","d","e","f","g","h","i","j","k","l","m",
                  "n","o","p","q","r","s","t","u","v","w","x","y","z">>
UpperLetters == <<"A","B","C","D","E","F","G","H","I","J","K","L","M",
                  "N","O","P","Q","R","S","T","U","V","W","X","Y","Z">>
Digits == {"0","1","2","3","4","5","6","7","8","9"}

\* U+0138 LATIN SMALL LETTER KRA: a lowercase letter (str.islower() is True)
\* that has no uppercase form (str.upper() leaves it unchanged)
Kra == "U+0138"

Range(s) == {s[i] : i \in DOMAIN s}
LowerSet == Range(LowerLetters)
UpperSet == Range(UpperLetters)
Whitespace == {" ", "\n", "\t", "\r"}

\* str.isspace for one character
IsSpace(c) == c \in Whitespace
\* str.islower for one character
IsLower(c) == c \in LowerSet \cup {Kra}
IsUpper(c) == c \in UpperSet
IsDigit(c) == c \in Digits

\* str.upper / str.lower for one character
UpperChar(c) ==
    IF c \in LowerSet
    THEN UpperLetters[CHOOSE i \in DOMAIN LowerLetters : LowerLetters[i] = c]
    ELSE c
LowerChar(c) ==
    IF IsUpper(c)
    THEN LowerLetters[CHOOSE i \in DOMAIN UpperLetters : UpperLetters[i] = c]
    ELSE c

\* str.upper(), str.lower()
Upper(s) == [i \in DOMAIN s |-> UpperChar(s[i])]
Lower(s) == [i \in DOMAIN s |-> LowerChar(s[i])]

\* s[a:b] of Python for 0 <= a, b <= len(s) (0-based, b exclusive)
Slice(s, a, b) == IF a >= b THEN <<>> ELSE SubSeq(s, a + 1, b)

\* the characters of s in the set cs stripped from both ends: str.strip(chars)
RECURSIVE LStripSet(_, _)
LStripSet(s, cs) ==
    IF s # <<>> /\ Head(s) \in cs THEN LStripSet(Tail(s), cs) ELSE s
RECURSIVE RStripSet(_, _)
RStripSet(s, cs) ==
    IF s # <<>> /\ s[Len(s)] \in cs
    THEN RStripSet(SubSeq(s, 1, Len(s) - 1), cs) ELSE s
StripSet(s, cs) == RStripSet(LStripSet(s, cs), cs)

\* str.strip(): whitespace stripped from both ends
Strip(s) == StripSet(s, Whitespace)

\* str.startswith, str.endswith
StartsWith(s, p) == Len(s) >= Len(p) /\ SubSeq(s, 1, Len(p)) = p
EndsWith(s, p) ==
    Len(s) >= Len(p) /\ SubSeq(s, Len(s) - Len(p) + 1, Len(s)) = p

\* str.replace(old, new): every non-overlapping occurrence, left to right
RECURSIVE Replace(_, _, _)
Replace(s, old, new) ==
    LET occ == {i \in 1..(Len(s) - Len(old) + 1) :
                   SubSeq(s, i, i + Len(old) - 1) = old}
    IN  IF occ = {} THEN s
        ELSE LET i == CHOOSE x \in occ : \A y \in occ : x <= y
             IN  SubSeq(s, 1, i - 1) \o new \o
                 Replace(SubSeq(s, i + Len(old), Len(s)), old, new)

\* str.split('\n'): the pieces between newlines, empty pieces kept
RECURSIVE SplitNL(_, _)
SplitNL(s, cur) ==
    LET nl == {i \in DOMAIN s : s[i] = "\n"}
    IN  IF nl = {} THEN <<cur \o s>>
        ELSE LET i == CHOOSE x \in nl : \A y \in nl : x <= y
             IN  <<cur \o SubSeq(s, 1, i - 1)>> \o
                 SplitNL(SubSeq(s, i + 1, Len(s)), <<>>)
Split(s) == SplitNL(s, <<>>)

\* [f(x) for x in xs if p(x)] building blocks
RECURSIVE SelectNonBlank(_)
SelectNonBlank(ls) ==
    IF ls = <<>> THEN <<>>
    ELSE IF Strip(Head(ls)) # <<>>
         THEN <<Strip(Head(ls))>> \o SelectNonBlank(Tail(ls))
         ELSE SelectNonBlank(Tail(ls))

\* "\n".join(lines)
RECURSIVE Join(_)
Join(ls) ==
    IF ls = <<>> THEN <<>>
    ELSE IF Len(ls) = 1 THEN Head(ls)
         ELSE Head(ls) \o <<"\n">> \o Join(Tail(ls))

Min(a, b) == IF a <= b THEN a ELSE b
Max(a, b) == IF a >= b THEN a ELSE b

RECURSIVE Pow(_, _)
Pow(b, e) == IF e = 0 THEN 1 ELSE b * Pow(b, e - 1)

(***************************************************************************)
(* String literals of the program.                                         *)
(***************************************************************************)
S_NO == <<"N","O">>
S_REMINDER == <<"R","E","M","I","N","D","E","R",":">>
S_DUE == <<"D","U","E",":">>
S_MISSING == <<"m","i","s","s","i","n","g"," ","v","a","l","u","e">>
S_DATE_OPEN == <<"d","a","t","e"," ","\"">>
S_QUOTE == <<"\"">>
S_FALLBACK == <<"F","o","l","l","o","w"," ","u","p"," ","o","n"," ",
                "m","e","s","s","a","g","e">>
S_ELLIPSIS == <<".",".",".">>

(***************************************************************************)
(* llm.py: the response parser.  None is written NoneResult.              *)
(***************************************************************************)
NoneResult == [kind |-> "None"]
Reminder(text, due, sender) ==
    [kind |-> "Reminder", text |-> text, due |-> due, sender |-> sender]

\* llm.py:152-168 without the truncation of lines 164-166
GeminiLLM_clean_reminder_text_NoTruncation(text) ==
    IF text = <<>> \/ Len(Strip(text)) = 0
    THEN S_FALLBACK
    ELSE LET t1 == StripSet(text, {"\"", "'"})
         IN  IF t1 # <<>> /\ IsLower(t1[1])
             THEN <<UpperChar(t1[1])>> \o Tail(t1)
             ELSE t1

\* llm.py:152-168  GeminiLLM._clean_reminder_text
GeminiLLM_clean_reminder_text(text) ==
    IF text = <<>> \/ Len(Strip(text)) = 0
    THEN S_FALLBACK
    ELSE LET t1 == StripSet(text, {"\"", "'"})
             t2 == IF t1 # <<>> /\ IsLower(t1[1])
                   THEN <<UpperChar(t1[1])>> \o Tail(t1)
                   ELSE t1
         IN  IF Len(t2) > MaxTextLen
             THEN SubSeq(t2, 1, KeepLen) \o S_ELLIPSIS
             ELSE t2

\* llm.py:183-184  re.match(r'\d{1,2}/\d{1,2}/\d{4}.*', due_date):
\* a digits, '/', b digits, '/', four digits, anything (a, b in 1..2)
AllDigits(s, from, n) ==
    /\ Len(s) >= from + n - 1
    /\ \A i \in from..(from + n - 1) : IsDigit(s[i])
CharAt(s, i, c) == Len(s) >= i /\ s[i] = c
MatchDatePattern(s) ==
    \E a \in 1..2, b \in 1..2 :
        /\ AllDigits(s, 1, a)
        /\ CharAt(s, a + 1, "/")
        /\ AllDigits(s, a + 2, b)
        /\ CharAt(s, a + b + 2, "/")
        /\ AllDigits(s, a + b + 3, 4)

\* llm.py:170-190  GeminiLLM._validate_due_date
GeminiLLM_validate_due_date(due_date) ==
    IF due_date = <<>> \/ Strip(Lower(due_date)) = S_MISSING
    THEN S_MISSING
    ELSE LET d == Strip(due_date)
         IN  IF StartsWith(d, S_DATE_OPEN) /\ EndsWith(d, S_QUOTE)
             THEN d
             ELSE IF MatchDatePattern(d)
                  THEN IF ~StartsWith(d, S_DATE_OPEN)
                       THEN S_DATE_OPEN \o d \o S_QUOTE
                       ELSE d
                  ELSE S_MISSING

\* llm.py:110-111  the stripped non-blank lines of the reply
ReplyLines(reminder_response) == SelectNonBlank(Split(reminder_response))

\* llm.py:118-125  the loop over the lines; each match overwrites the
\* variable, <<>> stands for None (a line is never empty)
RECURSIVE FindLines(_, _, _)
FindLines(lines, reminder_line, due_line) ==
    IF lines = <<>> THEN <<reminder_line, due_line>>
    ELSE LET line == Head(lines)
         IN  IF StartsWith(line, S_REMINDER)
             THEN FindLines(Tail(lines), line, due_line)
             ELSE IF StartsWith(line, S_DUE)
                  THEN FindLines(Tail(lines), reminder_line, line)
                  ELSE FindLines(Tail(lines), reminder_line, due_line)

\* llm.py:106  the no-action sentinel test
IsNoAction(reminder_response) == Strip(Upper(reminder_response)) = S_NO

\* llm.py:113  too few lines
TooFewLines(lines) == Len(lines) < 2

\* llm.py:127  a REMINDER: or a DUE: line is missing
MissingLine(found) == found[1] = <<>> \/ found[2] = <<>>

\* llm.py:132-146  the result built from the two lines
BuildReminder(reminder_line, due_line, sender) ==
    LET r1 == Strip(Replace(reminder_line, S_REMINDER, <<>>))
        r2 == IF StartsWith(r1, S_QUOTE) /\ EndsWith(r1, S_QUOTE)
              THEN Slice(r1, 1, Len(r1) - 1)
              ELSE r1
        d1 == Strip(Replace(due_line, S_DUE, <<>>))
    IN  Reminder(GeminiLLM_clean_reminder_text(r2),
                 GeminiLLM_validate_due_date(d1), sender)

\* llm.py:99-146  what generate_reminder does with the text of the response
\* (text = <<>> is an empty or absent response.text)
ParseResponse(text, sender) ==
    IF text = <<>> THEN NoneResult
    ELSE LET reminder_response == Strip(text)
         IN  IF IsNoAction(reminder_response) THEN NoneResult
             ELSE LET lines == ReplyLines(reminder_response)
                  IN  IF TooFewLines(lines) THEN NoneResult
                      ELSE LET found == FindLines(lines, <<>>, <<>>)
                           IN  IF MissingLine(found) THEN NoneResult
                               ELSE BuildReminder(found[1], found[2], sender)

(***************************************************************************)
(* Replies of the remote model: texts of up to MaxReplyLines lines.        *)
(***************************************************************************)
L_NO ==
    <<"N","O">>
L_no ==
    <<"n","o">>
L_No_padded ==
    <<" ","N","o"," ">>
L_NOPE ==
    <<"N","O","P","E">>
L_call_mom ==
    <<"R","E","M","I","N","D","E","R",":"," ","c","a","l","l"," ","m","o",
      "m">>
L_quoted ==
    <<"R","E","M","I","N","D","E","R",":"," ","\"","B","u","y"," ","m",
      "i","l","k","\"">>
L_no_text ==
    <<"R","E","M","I","N","D","E","R",":">>
L_kra ==
    <<"R","E","M","I","N","D","E","R",":"," ",Kra,"a">>
L_quotes_only ==
    <<"R","E","M","I","N","D","E","R",":"," ","'","'">>
L_due_missing ==
    <<"D","U","E",":"," ","m","i","s","s","i","n","g"," ","v","a","l","u",
      "e">>
L_due_garbage ==
    <<"D","U","E",":"," ","1","2","/","3","1","/","2","0","2","4"," ","s",
      "o","m","e"," ","g","a","r","b","a","g","e">>
L_due_literal ==
    <<"D","U","E",":"," ","d","a","t","e"," ","\"","1","2","/","3","1",
      "/","2","0","2","4"," ","0","6",":","0","0"," ","P","M","\"">>
L_hello ==
    <<"h","e","l","l","o">>
L_blank ==
    <<" ">>

ReplyLineSet ==
    {L_NO, L_no, L_No_padded, L_NOPE, L_call_mom, L_quoted, L_no_text,
     L_quotes_only, L_kra, L_due_missing, L_due_garbage, L_due_literal, L_hello,
     L_blank}

\* replies in which a prefix comes twice: two REMINDER: lines before the
\* DUE: line, two DUE: lines after the REMINDER: line, and the DUE: line
\* first
RepeatedPrefixReplies ==
    {Join(<<L_call_mom, L_quoted, L_due_missing>>),
     Join(<<L_call_mom, L_due_literal, L_due_missing>>),
     Join(<<L_due_missing, L_quoted, L_call_mom>>)}

\* REMINDER: lines whose text has MaxTextLen + 1 and MaxTextLen characters
L_too_long ==
    <<"R","E","M","I","N","D","E","R",":"," ">> \o
    [i \in 1..(MaxTextLen + 1) |-> "x"]
L_just_fits ==
    <<"R","E","M","I","N","D","E","R",":"," ">> \o
    [i \in 1..MaxTextLen |-> "y"]
LongReplies ==
    {Join(<<L_too_long, L_due_missing>>),
     Join(<<L_just_fits, L_due_missing>>)}

\* every text of 1..MaxReplyLines lines, the empty text, the replies with a
\* repeated prefix and the replies with a long text
Replies ==
    {<<>>} \cup RepeatedPrefixReplies \cup LongReplies \cup
    {Join(ls) : ls \in UNION {[1..n -> ReplyLineSet] : n \in 1..MaxReplyLines}}

\* the replies drawn while a scan runs
ScanReplies ==
    {L_NO, L_hello, Join(<<L_call_mom, L_due_missing>>)}

\* what the remote call of one attempt does: it raises, or it answers
RemoteOutcomes(R) ==
    {[kind |-> "error", text |-> <<>>]} \cup
    {[kind |-> "reply", text |-> r] : r \in R}

(***************************************************************************)
(* State.                                                                  *)
(***************************************************************************)
VARIABLES
    unread,            \* database.py: rowids of the unread received messages
    pc,                \* ui.py: "idle" (in the Tk main loop) or "scan"
    process_btn,       \* ui.py:103  state of the Scan & Process button
    df,                \* ui.py:321  rows fetched by process_messages
    pos,               \* ui.py:336  position of the loop in df (1-based)
    processed_count,   \* ui.py:335
    staged_reminders,  \* ui.py:31
    widgets,           \* ui.py:393-471  one widget per staged reminder
    sink_count,        \* reminders created in the sink, per source message
    events,            \* calls out (extraction, pause, diagnostic, sink
                       \* command) of the handler running or run last
    scans,             \* number of scans started
    gr,                \* llm.py:32-150  the running generate_reminder call
    bulk               \* reminder.py:264-277  the running bulk_create_reminders

vars == <<unread, pc, process_btn, df, pos, processed_count, staged_reminders,
          widgets, sink_count, events, scans, gr, bulk>>

ui_vars == <<unread, pc, process_btn, df, pos, processed_count,
             staged_reminders, widgets, sink_count, events, scans>>

Msgs == 1..NumMsgs

(***************************************************************************)
(* llm.py: generate_reminder under the tenacity retry decorator.           *)
(***************************************************************************)
\* a stop condition that lets one more attempt through
StopAfterAttempt_OneMore(attempt_number) == attempt_number >= MaxAttempts + 1

\* tenacity stop_after_attempt(3): stop once attempt_number >= 3
StopAfterAttempt(attempt_number) == attempt_number >= MaxAttempts

\* tenacity wait_exponential(multiplier=2, min=30, max=120):
\* max(min, min(multiplier * exp_base ** (attempt_number - 1), max))
WaitExponential(attempt_number) ==
    Max(WaitMin,
        Min(WaitMultiplier * Pow(ExpBase, attempt_number - 1), WaitMax))

\* the values conversation_context takes: None (the default, ui.py:342), or
\* the pandas DataFrame of MessageDB.get_conversation_context, empty or not
Contexts == {"None", "EmptyFrame", "Frame"}

\* llm.py:38  `conversation_context and ...` takes the truth value of the
\* argument; the truth value of a DataFrame raises ValueError
ContextRaises(ctx) == ctx # "None"

GrIdle ==
    [pc |-> "idle", ctx |-> "None", sender |-> "", attempt_number |-> 0,
     calls |-> 0, remote_errors |-> 0, waits |-> <<>>,
     got_reply |-> FALSE, reply |-> <<>>, result |-> NoneResult]

\* the call frame at the first attempt
GrCall(ctx, sender) ==
    [GrIdle EXCEPT !.pc = "attempt", !.ctx = ctx, !.sender = sender,
                   !.attempt_number = 1]

\* llm.py:148-150 and tenacity: the attempt raised; RetryError once the
\* stop condition holds, else the wait before the next attempt
OnRaise(g) ==
    IF StopAfterAttempt(g.attempt_number)
    THEN [g EXCEPT !.pc = "raised"]
    ELSE [g EXCEPT !.pc = "wait"]

\* an attempt that treats a None result as a failure of the attempt
AfterAttempt_RetryOnNone(g, remote) ==
    IF ContextRaises(g.ctx)
    THEN OnRaise(g)
    ELSE LET g1 == [g EXCEPT !.calls = @ + 1]
             g2 == [g1 EXCEPT !.got_reply = TRUE, !.reply = remote.text,
                              !.result = ParseResponse(remote.text, g.sender)]
         IN  IF remote.kind = "error"
             THEN OnRaise([g1 EXCEPT !.remote_errors = @ + 1])
             ELSE IF g2.result = NoneResult
             THEN OnRaise(g2)
             ELSE [g2 EXCEPT !.pc = "returned"]

\* an attempt whose parse depends on the attempt it runs in: after a retry
\* the due string is not validated
AfterAttempt_ParseByAttempt(g, remote) ==
    IF ContextRaises(g.ctx)
    THEN OnRaise(g)
    ELSE LET g1 == [g EXCEPT !.calls = @ + 1]
             parsed == ParseResponse(remote.text, g.sender)
         IN  IF remote.kind = "error"
             THEN OnRaise([g1 EXCEPT !.remote_errors = @ + 1])
             ELSE [g1 EXCEPT !.pc = "returned", !.got_reply = TRUE,
                             !.reply = remote.text,
                             !.result =
                                IF g.attempt_number > 1
                                   /\ parsed.kind = "Reminder"
                                THEN [parsed EXCEPT !.due = <<>>]
                                ELSE parsed]

\* llm.py:35-150  one attempt of generate_reminder
AfterAttempt(g, remote) ==
    IF ContextRaises(g.ctx)
    THEN OnRaise(g)
    ELSE LET g1 == [g EXCEPT !.calls = @ + 1]
         IN  IF remote.kind = "error"
             THEN OnRaise([g1 EXCEPT !.remote_errors = @ + 1])
             ELSE [g1 EXCEPT !.pc = "returned", !.got_reply = TRUE,
                             !.reply = remote.text,
                             !.result = ParseResponse(remote.text, g.sender)]

Attempt(R) ==
    /\ gr.pc = "attempt"
    /\ \E remote \in RemoteOutcomes(R) : gr' = AfterAttempt(gr, remote)

\* tenacity: sleep wait(attempt_number), then the next attempt
Backoff ==
    /\ gr.pc = "wait"
    /\ gr' = [gr EXCEPT !.waits = Append(@, WaitExponential(gr.attempt_number)),
                        !.attempt_number = @ + 1,
                        !.pc = "attempt"]

(***************************************************************************)
(* reminder.py: the commit executor.                                       *)
(***************************************************************************)
S_BACKSLASH == <<"\\">>
S_ESC_BACKSLASH == <<"\\","\\">>
S_ESC_QUOTE == <<"\\","\"">>
S_FROM_OPEN == <<" ","(","f","r","o","m"," ">>
S_FROM_CLOSE == <<")">>

\* reminder.py:67  the characters the substitution keeps:
\* [\w\s\-.,!?:;()\[\]/@#$%&*+=<>]
AllowedPunctuation ==
    {"-", ".", ",", "!", "?", ":", ";", "(", ")", "[", "]", "/",
     "@", "#", "$", "%", "&", "*", "+", "=", "<", ">"}
IsAllowedChar(c) ==
    \/ IsLower(c) \/ IsUpper(c) \/ IsDigit(c) \/ c = "_"
    \/ IsSpace(c)
    \/ c \in AllowedPunctuation

\* reminder.py:57-73  ReminderManager._clean_reminder_text
ReminderManager_clean_reminder_text(text) ==
    IF text = <<>> THEN S_FALLBACK
    ELSE LET t1 == Replace(text, S_BACKSLASH, S_ESC_BACKSLASH)
             t2 == Replace(t1, S_QUOTE, S_ESC_QUOTE)
             t3 == SelectSeq(t2, IsAllowedChar)
             t4 == IF Len(t3) > MaxTextLen
                   THEN SubSeq(t3, 1, KeepLen) \o S_ELLIPSIS
                   ELSE t3
         IN  Strip(t4)

\* reminder.py:9  default_list="Reminders"
DefaultList == "Reminders"

\* reminder.py:26  the due date is given and is not the missing-value sentinel
HasDueDate(due_date) ==
    due_date # <<>> /\ Lower(Strip(due_date)) # S_MISSING

\* reminder.py:78-79 and 130-131  the source appended to the title
WithSource(reminder_text, source_info) ==
    IF source_info # <<>>
    THEN reminder_text \o S_FROM_OPEN \o source_info \o S_FROM_CLOSE
    ELSE reminder_text

NoCommand == [dated |-> FALSE, name |-> <<>>, due |-> <<>>, list |-> ""]

\* reminder.py:75-104  _build_applescript_with_date: the values embedded
BuildApplescriptWithDate(reminder_text, due_date, reminder_list, source_info) ==
    [dated |-> TRUE, name |-> WithSource(reminder_text, source_info),
     due |-> due_date, list |-> reminder_list]

\* reminder.py:127-143  _build_applescript_no_date: the values embedded
BuildApplescriptNoDate(reminder_text, reminder_list, source_info) ==
    [dated |-> FALSE, name |-> WithSource(reminder_text, source_info),
     due |-> <<>>, list |-> reminder_list]

\* what running the command in the sink does: exit status 0, a non-zero
\* exit status, or no answer within the 30 s timeout
SinkOutcomes == {"ok", "exit", "timeout"}

\* reminder.py:14-33  create_reminder up to the command: the tuple unpacked
\* (a tuple of another length raises ValueError), the text cleaned, the
\* command built.  reminder_list is "" for None.
CreateReminderCommand(reminder_data, reminder_list) ==
    IF Len(reminder_data) \notin {2, 3}
    THEN [raised |-> TRUE, command |-> NoCommand]
    ELSE LET due_date == reminder_data[2]
             source_info == IF Len(reminder_data) = 2 THEN <<>>
                            ELSE reminder_data[3]
             reminder_text ==
                 ReminderManager_clean_reminder_text(reminder_data[1])
             target_list == IF reminder_list # "" THEN reminder_list
                            ELSE DefaultList
         IN  [raised |-> FALSE,
              command |->
                 IF HasDueDate(due_date)
                 THEN BuildApplescriptWithDate(reminder_text, due_date,
                                               target_list, source_info)
                 ELSE BuildApplescriptNoDate(reminder_text, target_list,
                                             source_info)]

\* reminder.py:35-55  the command run by osascript, and what create_reminder
\* answers: True, or an exception (raised); ran = the sink was invoked
RunCommand(built, sink) ==
    IF built.raised
    THEN [raised |-> TRUE, ran |-> FALSE, error |-> "ValueError",
          command |-> built.command]
    ELSE CASE sink = "ok" ->
                [raised |-> FALSE, ran |-> TRUE, error |-> "",
                 command |-> built.command]
           [] sink = "exit" ->
                [raised |-> TRUE, ran |-> TRUE,
                 error |-> "AppleScript execution failed",
                 command |-> built.command]
           [] OTHER ->
                [raised |-> TRUE, ran |-> TRUE,
                 error |-> "Reminder creation timed out",
                 command |-> built.command]

\* reminder.py:12-55  ReminderManager.create_reminder
CreateReminder(reminder_data, reminder_list, sink) ==
    RunCommand(CreateReminderCommand(reminder_data, reminder_list), sink)

(***************************************************************************)
(* reminder.py: bulk_create_reminders, one item per step.                  *)
(***************************************************************************)
T_milk ==
    <<"b","u","y"," ","m","i","l","k">>
T_say ==
    <<"s","a","y"," ","\"","h","i","\"">>
D_literal ==
    <<"d","a","t","e"," ","\"","1","2","/","3","1","/","2","0","2","4",
      " ","0","6",":","0","0"," ","P","M","\"">>
T_john ==
    <<"J","o","h","n">>

\* the reminder_data tuples handed over: (text, due), (text, due, source),
\* and a tuple of the wrong length
ItemSet ==
    {<<T_milk, S_MISSING>>, <<T_say, D_literal>>,
     <<T_milk, <<>>, T_john>>, <<T_milk>>}

\* texts and due strings at the edges of create_reminder's tests: a blank
\* due string, the sentinel in another letter case, a relative date, a text
\* with a backslash, a blank text, a text of quotes only, an empty text and
\* a text of MaxTextLen + 1 characters
D_blank ==
    <<" ">>
D_Missing_Value ==
    <<"M","i","s","s","i","n","g"," ","V","a","l","u","e">>
D_tomorrow ==
    <<"t","o","m","o","r","r","o","w">>
T_path ==
    <<"C",":","\\","t","m","p">>
T_blank ==
    <<" "," ">>
T_quotes_only ==
    <<"\"","\"">>
T_long ==
    [i \in 1..(MaxTextLen + 1) |-> "x"]
EdgeItems ==
    {<<T_milk, D_blank>>, <<T_milk, D_Missing_Value>>,
     <<T_milk, D_tomorrow>>, <<T_path, S_MISSING>>, <<T_blank, S_MISSING>>,
     <<T_quotes_only, S_MISSING>>, <<<<>>, S_MISSING>>,
     <<T_long, S_MISSING>>}

\* the lists handed over: every list of up to MaxItems items of ItemSet, and
\* each edge item alone
ItemLists ==
    UNION {[1..n -> ItemSet] : n \in 0..MaxItems} \cup
    {<<item>> : item \in EdgeItems}

BulkIdle ==
    [pc |-> "idle", items |-> <<>>, target_list |-> "", i |-> 0,
     created_count |-> 0, errors |-> <<>>, attempted |-> <<>>]

\* reminder.py:266-268
BulkCall(reminders_list, reminder_list) ==
    /\ bulk.pc \in {"idle", "returned"}
    /\ bulk' = [BulkIdle EXCEPT
                   !.pc = IF reminders_list = <<>> THEN "returned" ELSE "loop",
                   !.items = reminders_list,
                   !.target_list = IF reminder_list # "" THEN reminder_list
                                   ELSE DefaultList,
                   !.i = 1]

\* an iteration whose failure ends the loop
BulkIteration_Stop(b, sink) ==
    LET res == CreateReminder(b.items[b.i], b.target_list, sink)
        b1 == [b EXCEPT !.attempted =
                            Append(@, [item |-> b.i, ran |-> res.ran,
                                       raised |-> res.raised,
                                       command |-> res.command]),
                        !.i = @ + 1,
                        !.pc = IF b.i = Len(b.items) \/ res.raised
                               THEN "returned" ELSE "loop"]
    IN  IF res.raised
        THEN [b1 EXCEPT !.errors = Append(@, res.error)]
        ELSE [b1 EXCEPT !.created_count = @ + 1]

\* reminder.py:270-277  one iteration of the loop (and the return after the
\* last one)
BulkIteration(b, sink) ==
    LET res == CreateReminder(b.items[b.i], b.target_list, sink)
        b1 == [b EXCEPT !.attempted =
                            Append(@, [item |-> b.i, ran |-> res.ran,
                                       raised |-> res.raised,
                                       command |-> res.command]),
                        !.i = @ + 1,
                        !.pc = IF b.i = Len(b.items) THEN "returned" ELSE "loop"]
    IN  IF res.raised
        THEN [b1 EXCEPT !.errors = Append(@, res.error)]
        ELSE [b1 EXCEPT !.created_count = @ + 1]

BulkStep(sink) ==
    /\ bulk.pc = "loop"
    /\ bulk' = BulkIteration(bulk, sink)

(***************************************************************************)
(* database.py: the message source.  A message is its rowid; a larger      *)
(* rowid is a later date.  The text of message m is written m, and         *)
(* messages are told apart by it.                                          *)
(***************************************************************************)
Sender(m) == IF m % 2 = 1 THEN "John" ELSE "Mary"

\* ORDER BY message.date DESC
RECURSIVE NewestFirst(_)
NewestFirst(S) ==
    IF S = {} THEN <<>>
    ELSE LET m == CHOOSE x \in S : \A y \in S : y <= x
         IN  <<m>> \o NewestFirst(S \ {m})

\* database.py:66-106  get_unread_imessages: unread received messages,
\* newest first, at most `limit` of them
GetUnreadImessages(limit) ==
    LET rows == NewestFirst(unread)
    IN  SubSeq(rows, 1, Min(limit, Len(rows)))

\* a message is received (and stays unread: nothing in the program marks a
\* message read, mark_messages_as_read has no caller)
MessageArrives ==
    /\ pc = "idle"
    /\ \E m \in Msgs \ unread :
          /\ \A k \in unread : k < m
          /\ unread' = unread \cup {m}
    /\ UNCHANGED <<pc, process_btn, df, pos, processed_count,
                   staged_reminders, widgets, sink_count, events, scans,
                   gr, bulk>>

(***************************************************************************)
(* ui.py: the staging store and its widgets.  Positions are 1-based here   *)
(* (index i of the code is position i + 1).                                *)
(***************************************************************************)
T_ok ==
    <<"o","k">>
D_noon ==
    <<"d","a","t","e"," ","\"","0","1","/","0","2","/","2","0","2","5",
      " ","1","2",":","0","0"," ","P","M","\"">>

\* what the user leaves in the Reminder Text and Due Date entries of a
\* widget after editing it (the due date typed or set by a quick-date button)
UserEdits == {[text |-> T_ok, due |-> D_noon]}

Event(ev, msg, ok, command) ==
    [ev |-> ev, msg |-> msg, ok |-> ok, command |-> command]

\* ui.py:396-471  create_staged_reminder_widget: the index the closures
\* capture, the original message shown and the two StringVars
CreateStagedReminderWidget(reminder, index) ==
    [index |-> index,
     original_text |-> reminder.original_text,
     reminder_text_var |-> reminder.reminder_text,
     due_date_var |-> IF reminder.due_date # S_MISSING THEN reminder.due_date
                      ELSE <<>>]

\* ui.py:387-394  refresh_staged_reminders_display
RefreshStagedRemindersDisplay(staged) ==
    [i \in DOMAIN staged |-> CreateStagedReminderWidget(staged[i], i)]

\* ui.py:453-457  update_reminder of the widget wd
UpdateReminder(staged, wd) ==
    [staged EXCEPT ![wd.index] =
        [@ EXCEPT !.reminder_text = wd.reminder_text_var,
                  !.due_date = IF wd.due_date_var # <<>> THEN wd.due_date_var
                               ELSE S_MISSING]]

\* list.pop(index)
Pop(seq, index) ==
    SubSeq(seq, 1, index - 1) \o SubSeq(seq, index + 1, Len(seq))

\* ui.py:349-356  the staged reminder made of a result
StagedReminder(text, result) ==
    [original_text |-> text, reminder_text |-> result.text,
     due_date |-> result.due, sender |-> result.sender]

\* ui.py:315-334  process_messages up to the loop
ProcessMessages ==
    /\ pc = "idle"
    /\ process_btn = "normal"
    /\ gr.pc = "idle"
    /\ scans < MaxScans
    /\ Len(staged_reminders) + Cardinality(unread) <= MaxStaged
    /\ scans' = scans + 1
    /\ \E db_ok \in BOOLEAN :
         LET rows == GetUnreadImessages(UnreadLimit)
         IN  IF ~db_ok
             THEN /\ events' = <<>>
                  /\ UNCHANGED <<pc, process_btn, df, pos, processed_count>>
             ELSE IF rows = <<>>
             THEN /\ events' = <<>>
                  /\ UNCHANGED <<pc, process_btn, df, pos, processed_count>>
             ELSE /\ pc' = "scan"
                  /\ process_btn' = "disabled"
                  /\ df' = rows
                  /\ pos' = 1
                  /\ processed_count' = 0
                  /\ events' = <<>>
    /\ UNCHANGED <<unread, staged_reminders, widgets, sink_count, gr, bulk>>

\* ui.py:336-342  the loop reaches a row and calls generate_reminder
ScanCall ==
    /\ pc = "scan"
    /\ pos <= Len(df)
    /\ gr.pc = "idle"
    /\ gr' = GrCall("None", Sender(df[pos]))
    /\ events' = Append(events, Event("extract", df[pos], TRUE, NoCommand))
    /\ UNCHANGED <<unread, pc, process_btn, df, pos, processed_count,
                   staged_reminders, widgets, sink_count, scans, bulk>>

\* the attempts and waits of the call, while the handler blocks in it
ScanAttempt ==
    /\ pc = "scan"
    /\ Attempt(ScanReplies)
    /\ UNCHANGED <<ui_vars, bulk>>

ScanBackoff ==
    /\ pc = "scan"
    /\ Backoff
    /\ UNCHANGED <<ui_vars, bulk>>

\* an iteration whose exception leaves the loop
AfterCall_Abort(staged, count, log, p, text, g) ==
    IF g.pc = "raised"
    THEN [staged |-> staged, count |-> count, pos |-> Len(df) + 1,
          log |-> Append(log, Event("diagnostic", text, FALSE, NoCommand))]
    ELSE IF g.result.kind = "Reminder"
    THEN [staged |-> Append(staged, StagedReminder(text, g.result)),
          count |-> count + 1, pos |-> p + 1,
          log |-> Append(log, Event("pause", text, TRUE, NoCommand))]
    ELSE [staged |-> staged, count |-> count, pos |-> p + 1,
          log |-> Append(log, Event("pause", text, TRUE, NoCommand))]

\* an iteration that stages a None result under the fallback text
AfterCall_StageNone(staged, count, log, p, text, g) ==
    IF g.pc = "raised"
    THEN [staged |-> staged, count |-> count, pos |-> p + 1,
          log |-> Append(log, Event("diagnostic", text, FALSE, NoCommand))]
    ELSE LET result == IF g.result.kind = "Reminder" THEN g.result
                       ELSE Reminder(S_FALLBACK, S_MISSING, g.sender)
         IN  [staged |-> Append(staged, StagedReminder(text, result)),
              count |-> count + 1, pos |-> p + 1,
              log |-> Append(log, Event("pause", text, TRUE, NoCommand))]

\* ui.py:336-366  the rest of the iteration for the row `text`, once
\* generate_reminder returned or raised: the result staged and the pause, or
\* the exception handler; then the loop goes on to the next row
AfterCall(staged, count, log, p, text, g) ==
    IF g.pc = "raised"
    THEN [staged |-> staged, count |-> count, pos |-> p + 1,
          log |-> Append(log, Event("diagnostic", text, FALSE, NoCommand))]
    ELSE IF g.result.kind = "Reminder"
    THEN [staged |-> Append(staged, StagedReminder(text, g.result)),
          count |-> count + 1, pos |-> p + 1,
          log |-> Append(log, Event("pause", text, TRUE, NoCommand))]
    ELSE [staged |-> staged, count |-> count, pos |-> p + 1,
          log |-> Append(log, Event("pause", text, TRUE, NoCommand))]

ScanResult ==
    /\ pc = "scan"
    /\ pos <= Len(df)
    /\ gr.pc \in {"returned", "raised"}
    /\ \E after \in {AfterCall(staged_reminders, processed_count, events,
                               pos, df[pos], gr)} :
           /\ staged_reminders' = after.staged
           /\ processed_count' = after.count
           /\ events' = after.log
           /\ pos' = after.pos
    /\ gr' = GrIdle
    /\ UNCHANGED <<unread, pc, process_btn, df, widgets, sink_count, scans,
                   bulk>>

\* ui.py:368-385  after the loop
ScanFinish ==
    /\ pc = "scan"
    /\ pos > Len(df)
    /\ gr.pc = "idle"
    /\ widgets' = RefreshStagedRemindersDisplay(staged_reminders)
    /\ pc' = "idle"
    /\ process_btn' = "normal"
    /\ df' = <<>>
    /\ pos' = 0
    /\ processed_count' = 0
    /\ events' = <<>>
    /\ UNCHANGED <<unread, staged_reminders, sink_count, scans, gr, bulk>>

\* the user edits the entries of widget w; nothing but the StringVars of
\* the widget changes until a button is pressed
EditWidget ==
    /\ pc = "idle"
    /\ \E w \in DOMAIN widgets, e \in UserEdits :
          /\ widgets' = [widgets EXCEPT ![w].reminder_text_var = e.text,
                                        ![w].due_date_var = e.due]
          /\ widgets' # widgets
    /\ UNCHANGED <<unread, pc, process_btn, df, pos, processed_count,
                   staged_reminders, sink_count, events, scans, gr, bulk>>

\* a create handler that, once the reminder is created, pops the first
\* reminder of the store whatever the index
CreateIndividual_PopFirst(staged, count, wd, sink) ==
    LET updated == UpdateReminder(staged, wd)
        reminder == updated[wd.index]
        res == CreateReminder(<<reminder.reminder_text, reminder.due_date>>,
                              "", sink)
        ev == Event("create", reminder.original_text, ~res.raised,
                    res.command)
    IN  IF res.raised
        THEN [staged |-> updated, refresh |-> FALSE, sink_count |-> count,
              events |-> <<ev>>]
        ELSE [staged |-> Pop(updated, 1), refresh |-> TRUE,
              sink_count |-> [count EXCEPT ![reminder.original_text] = @ + 1],
              events |-> <<ev>>]

\* ui.py:478-499  create_individual_reminder(index, update_callback) for
\* the widget wd: the store updated from the widget, the reminder created
\* and, if that did not raise, popped
CreateIndividual(staged, count, wd, sink) ==
    LET updated == UpdateReminder(staged, wd)
        reminder == updated[wd.index]
        res == CreateReminder(<<reminder.reminder_text, reminder.due_date>>,
                              "", sink)
        ev == Event("create", reminder.original_text, ~res.raised,
                    res.command)
    IN  IF res.raised
        THEN [staged |-> updated, refresh |-> FALSE, sink_count |-> count,
              events |-> <<ev>>]
        ELSE [staged |-> Pop(updated, wd.index), refresh |-> TRUE,
              sink_count |-> [count EXCEPT ![reminder.original_text] = @ + 1],
              events |-> <<ev>>]

CreateIndividualReminder ==
    /\ pc = "idle"
    /\ \E w \in DOMAIN widgets, sink \in SinkOutcomes :
         /\ widgets[w].index \in DOMAIN staged_reminders
         /\ \E out \in {CreateIndividual(staged_reminders, sink_count,
                                         widgets[w], sink)} :
               /\ staged_reminders' = out.staged
               /\ widgets' = IF out.refresh
                             THEN RefreshStagedRemindersDisplay(out.staged)
                             ELSE widgets
               /\ sink_count' = out.sink_count
               /\ events' = out.events
    /\ UNCHANGED <<unread, pc, process_btn, df, pos, processed_count, scans,
                   gr, bulk>>

\* a remove handler that runs whether or not a scan is under way
RemoveStagedReminder_DuringScan ==
    /\ \E w \in DOMAIN widgets :
         /\ widgets[w].index \in DOMAIN staged_reminders
         /\ staged_reminders' = Pop(staged_reminders, widgets[w].index)
         /\ widgets' = RefreshStagedRemindersDisplay(staged_reminders')
         /\ events' = <<>>
    /\ UNCHANGED <<unread, pc, process_btn, df, pos, processed_count,
                   sink_count, scans, gr, bulk>>

\* a remove handler that pops the reminder and leaves the widgets as they
\* are
RemoveStagedReminder_NoRefresh ==
    /\ pc = "idle"
    /\ \E w \in DOMAIN widgets :
         /\ widgets[w].index \in DOMAIN staged_reminders
         /\ staged_reminders' = Pop(staged_reminders, widgets[w].index)
         /\ events' = <<>>
    /\ UNCHANGED <<unread, pc, process_btn, df, pos, processed_count,
                   widgets, sink_count, scans, gr, bulk>>

\* ui.py:501-508  remove_staged_reminder(index) of widget w
RemoveStagedReminder ==
    /\ pc = "idle"
    /\ \E w \in DOMAIN widgets, confirm \in BOOLEAN :
         LET index == widgets[w].index
         IN  /\ index \in DOMAIN staged_reminders
             /\ IF confirm
                THEN /\ staged_reminders' = Pop(staged_reminders, index)
                     /\ widgets' = RefreshStagedRemindersDisplay(
                                       staged_reminders')
                     /\ events' = <<>>
                ELSE /\ events' = <<>>
                     /\ UNCHANGED <<staged_reminders, widgets>>
    /\ UNCHANGED <<unread, pc, process_btn, df, pos, processed_count,
                   sink_count, scans, gr, bulk>>

\* a loop that the first failure ends
RECURSIVE CreateAllLoop_StopOnFailure(_, _, _)
CreateAllLoop_StopOnFailure(reminders, sinks, acc) ==
    IF reminders = <<>> THEN acc
    ELSE LET reminder == Head(reminders)
             res == CreateReminder(
                        <<reminder.reminder_text, reminder.due_date>>,
                        "", Head(sinks))
             ev == Event("create", reminder.original_text, ~res.raised,
                         res.command)
         IN  IF res.raised
             THEN [created_count |-> acc.created_count,
                   errors |-> Append(acc.errors, res.error),
                   log |-> Append(acc.log, ev)]
             ELSE CreateAllLoop_StopOnFailure(Tail(reminders), Tail(sinks),
                      [created_count |-> acc.created_count + 1,
                       errors |-> acc.errors,
                       log |-> Append(acc.log, ev)])

\* ui.py:523-532  the loop of create_all_reminders over a copy of the list;
\* sinks[i] is what the sink does with the i-th command
RECURSIVE CreateAllLoop(_, _, _)
CreateAllLoop(reminders, sinks, acc) ==
    IF reminders = <<>> THEN acc
    ELSE LET reminder == Head(reminders)
             res == CreateReminder(
                        <<reminder.reminder_text, reminder.due_date>>,
                        "", Head(sinks))
             ev == Event("create", reminder.original_text, ~res.raised,
                         res.command)
         IN  CreateAllLoop(Tail(reminders), Tail(sinks),
                 [created_count |-> acc.created_count
                                      + (IF res.raised THEN 0 ELSE 1),
                  errors |-> IF res.raised THEN Append(acc.errors, res.error)
                             ELSE acc.errors,
                  log |-> Append(acc.log, ev)])

\* the sink's count raised for each reminder the log says was created
RECURSIVE Counted(_, _)
Counted(count, log) ==
    IF log = <<>> THEN count
    ELSE Counted(IF Head(log).ev = "create" /\ Head(log).ok
                 THEN [count EXCEPT ![Head(log).msg] = @ + 1]
                 ELSE count,
                 Tail(log))

\* ui.py:519-548  create_all_reminders once confirmed: every reminder of
\* the copy handed to create_reminder, the store cleared, the result shown
CreateAll(staged, count, sinks) ==
    LET done == CreateAllLoop(staged, sinks,
                    [created_count |-> 0, errors |-> <<>>, log |-> <<>>])
    IN  [staged |-> <<>>,
         sink_count |-> Counted(count, done.log),
         events |-> Append(done.log,
                       Event("report",
                             [created |-> done.created_count,
                              errors |-> Len(done.errors)],
                             done.errors = <<>>, NoCommand))]

\* ui.py:510-548  create_all_reminders
CreateAllReminders ==
    /\ pc = "idle"
    /\ staged_reminders # <<>>
    /\ \E confirm \in BOOLEAN :
         IF ~confirm
         THEN /\ events' = <<>>
              /\ UNCHANGED <<staged_reminders, widgets, sink_count>>
         ELSE \E sinks \in [DOMAIN staged_reminders -> SinkOutcomes] :
                \E out \in {CreateAll(staged_reminders, sink_count, sinks)} :
                    /\ staged_reminders' = out.staged
                    /\ widgets' = RefreshStagedRemindersDisplay(out.staged)
                    /\ sink_count' = out.sink_count
                    /\ events' = out.events
    /\ UNCHANGED <<unread, pc, process_btn, df, pos, processed_count, scans,
                   gr, bulk>>

\* ui.py:550-561  clear_staged_reminders
ClearStagedReminders ==
    /\ pc = "idle"
    /\ staged_reminders # <<>>
    /\ \E confirm \in BOOLEAN :
         IF confirm
         THEN /\ staged_reminders' = <<>>
              /\ widgets' = RefreshStagedRemindersDisplay(<<>>)
              /\ events' = <<>>
         ELSE /\ events' = <<>>
              /\ UNCHANGED <<staged_reminders, widgets>>
    /\ UNCHANGED <<unread, pc, process_btn, df, pos, processed_count,
                   sink_count, scans, gr, bulk>>

\* ui.py:586-597 and 278-290  auto_refresh, the timer callback the main
\* loop runs every 30 s: refresh_data unless the Scan & Process button is
\* disabled (the tab shown is the user's choice); it reads the unread
\* messages into the message list and leaves the staging store alone
AutoRefresh ==
    /\ pc = "idle"
    /\ process_btn # "disabled"
    /\ events' = <<>>
    /\ UNCHANGED <<unread, pc, process_btn, df, pos, processed_count,
                   staged_reminders, widgets, sink_count, scans, gr, bulk>>

(***************************************************************************)
(* Specifications.                                                         *)
(***************************************************************************)
\* ui.py:16-37  ReminderUI.__init__; llm and rm are idle
Init ==
    /\ unread = {}
    /\ pc = "idle"
    /\ process_btn = "normal"
    /\ df = <<>>
    /\ pos = 0
    /\ processed_count = 0
    /\ staged_reminders = <<>>
    /\ widgets = <<>>
    /\ sink_count = [m \in Msgs |-> 0]
    /\ events = <<>>
    /\ scans = 0
    /\ gr = GrIdle
    /\ bulk = BulkIdle

\* the application: messages arrive, the user scans, reviews and commits
Next ==
    \/ MessageArrives
    \/ ProcessMessages
    \/ ScanCall
    \/ ScanAttempt
    \/ ScanBackoff
    \/ ScanResult
    \/ ScanFinish
    \/ EditWidget
    \/ CreateIndividualReminder
    \/ RemoveStagedReminder
    \/ CreateAllReminders
    \/ ClearStagedReminders
    \/ AutoRefresh

Spec == Init /\ [][Next]_vars

\* generate_reminder called on its own, with any conversation context and
\* any reply of the remote model
ExtractCall ==
    /\ gr.pc \in {"idle", "returned", "raised"}
    /\ \E ctx \in Contexts, sender \in {"John", "Mary"} :
          gr' = GrCall(ctx, sender)
    /\ UNCHANGED <<ui_vars, bulk>>

ExtractAttempt == Attempt(Replies) /\ UNCHANGED <<ui_vars, bulk>>

ExtractBackoff == Backoff /\ UNCHANGED <<ui_vars, bulk>>

NextExtract == ExtractCall \/ ExtractAttempt \/ ExtractBackoff

SpecExtract == Init /\ [][NextExtract]_vars

\* bulk_create_reminders called on its own
BulkCreateReminders ==
    /\ \E items \in ItemLists, reminder_list \in {"", "Work"} :
          BulkCall(items, reminder_list)
    /\ UNCHANGED <<ui_vars, gr>>

BulkNext ==
    /\ \E sink \in SinkOutcomes : BulkStep(sink)
    /\ UNCHANGED <<ui_vars, gr>>

NextBulk == BulkCreateReminders \/ BulkNext

SpecBulk == Init /\ [][NextBulk]_vars

(***************************************************************************)
(* Properties.                                                             *)
(***************************************************************************)
\* how many staged reminders come from message m
StagedFrom(m) ==
    Cardinality({i \in DOMAIN staged_reminders :
                    staged_reminders[i].original_text = m})

\* C1: at-most-once per message.  Across any sequence of scans and commits
\* a source message has at most one reminder, staged or created in the sink:
\* it is not staged twice, not created twice, and not staged again once it
\* was created.
C1_AtMostOncePerMessage ==
    \A m \in Msgs : StagedFrom(m) + sink_count[m] <= 1

\* C1: message 1 stays unread after the scan that staged it, and the next
\* scan stages it again
C1_StagedTwice ==
    /\ pc = "idle"
    /\ scans = 2
    /\ StagedFrom(1) = 2

\* C2: retry bound.  No call makes a 4th attempt, and a call whose remote
\* request raised on every attempt ends only after exactly 3 attempts, with
\* an error and never with a result.
C2_RetryBound ==
    /\ gr.attempt_number <= 3
    /\ (gr.pc \in {"returned", "raised"}
            /\ gr.remote_errors = gr.attempt_number)
         => (gr.pc = "raised" /\ gr.attempt_number = 3)

\* C2: a call made 3 remote requests, each raised, and it failed
C2_ThreeFailedAttempts ==
    /\ gr.pc = "raised"
    /\ gr.calls = 3
    /\ gr.remote_errors = 3

\* sum of a sequence of numbers
RECURSIVE Sum(_)
Sum(s) == IF s = <<>> THEN 0 ELSE s[1] + Sum(Tail(s))

\* C3: backoff schedule.  The i-th wait is 30 doubled i-1 times, capped at
\* 120; a call that fails on all 3 attempts waited 30 then 60, at least 90
\* in total.
C3_BackoffDoubles ==
    /\ \A i \in DOMAIN gr.waits : gr.waits[i] = Min(30 * Pow(2, i - 1), 120)
    /\ (gr.pc = "raised" /\ gr.remote_errors = 3)
         => (gr.waits = <<30, 60>> /\ Sum(gr.waits) >= 90)

\* C3: a call whose 3 remote requests raised has waited 30 and 30
C3_WaitedSixty ==
    /\ gr.pc = "raised"
    /\ gr.remote_errors = 3
    /\ gr.waits = <<30, 30>>

\* C4: one outbound call per attempt.  Every attempt that is over has made
\* exactly one remote request, so a call that is over has made between 1 and
\* 3 of them.
C4_OneCallPerAttempt ==
    /\ gr.pc \in {"wait", "returned", "raised"}
         => gr.calls = gr.attempt_number
    /\ gr.pc \in {"returned", "raised"} => gr.calls \in 1..3

\* C4: a call given a conversation context failed after 3 attempts without
\* a single remote request
C4_NoCallAtAll ==
    /\ gr.pc = "raised"
    /\ gr.ctx = "Frame"
    /\ gr.attempt_number = 3
    /\ gr.calls = 0

\* the reply is the no-action sentinel: trimmed, it is NO in any letter case
IsSentinel(reply) == Upper(Strip(reply)) = <<"N","O">>

\* C5: NoAction is terminal.  A sentinel reply ends the call at the attempt
\* that received it: the call returns None, and no wait or further attempt
\* follows the reply.
C5_NoActionTerminal ==
    (gr.got_reply /\ IsSentinel(gr.reply))
        => /\ gr.pc = "returned"
           /\ gr.result = NoneResult
           /\ gr.calls = gr.attempt_number

\* C5: the first attempt received " No " and the call returned None
C5_SentinelReturned ==
    /\ gr.pc = "returned"
    /\ gr.reply = L_No_padded
    /\ gr.attempt_number = 1
    /\ gr.result = NoneResult

\* the non-empty lines of a reply, trimmed
NonEmptyLines(reply) ==
    LET ls == Split(reply)
    IN  SelectSeq([i \in DOMAIN ls |-> Strip(ls[i])], LAMBDA l : l # <<>>)

\* the reply fits the two-line grammar
FitsGrammar(reply) ==
    LET ls == NonEmptyLines(reply)
    IN  /\ Len(ls) >= 2
        /\ \E i \in DOMAIN ls :
              StartsWith(ls[i], <<"R","E","M","I","N","D","E","R",":">>)
        /\ \E i \in DOMAIN ls : StartsWith(ls[i], <<"D","U","E",":">>)

Malformed(reply) == ~IsSentinel(reply) /\ ~FitsGrammar(reply)

\* C6: a malformed reply is retryable.  The attempt that received a
\* malformed reply does not end the call with a result: the call goes on to
\* a wait and a further attempt, or fails once its 3 attempts are used.
C6_MalformedIsRetried ==
    (gr.got_reply /\ Malformed(gr.reply))
        => \/ gr.pc \in {"wait", "attempt"}
           \/ gr.pc = "raised" /\ gr.attempt_number = 3

\* C6: the first attempt received "hello" and the call is over
C6_MalformedNotRetried ==
    /\ gr.pc = "returned"
    /\ gr.reply = L_hello
    /\ gr.attempt_number = 1

\* C7: a malformed reply is a Malformed error.  A call returns None only for
\* a sentinel reply; a malformed or empty reply never comes back as None.
C7_MalformedNeverNoAction ==
    (gr.pc = "returned" /\ gr.result = NoneResult) => IsSentinel(gr.reply)

\* C7: the empty reply came back as None
C7_EmptyReplyIsNone ==
    /\ gr.pc = "returned"
    /\ gr.got_reply
    /\ gr.reply = <<>>
    /\ gr.result = NoneResult

\* the messages of the events of the kinds in `kinds`, in order
MsgsOf(kinds) ==
    LET es == SelectSeq(events, LAMBDA e : e.ev \in kinds)
    IN  [i \in DOMAIN es |-> es[i].msg]

\* the reminders staged by the scan under way, in order
StagedThisScan ==
    SubSeq(staged_reminders,
           Len(staged_reminders) - processed_count + 1,
           Len(staged_reminders))

\* C8: a scan never aborts on a per-message failure.  While a scan runs,
\* the rows it is through with, failed ones included, are exactly the rows
\* before the loop's position, each ended by a pause or by a recorded
\* diagnostic; the extraction calls made are those of these rows (and of the
\* row under way), in the order fetched, so at the end of the loop every
\* fetched row had its call; and the reminders the scan staged are all still
\* staged, in that order, none of them for a row that failed.
C8_ScanNeverAborts ==
    pc = "scan" =>
        LET handled == MsgsOf({"pause", "diagnostic"})
            failed == {events[i].msg : i \in {j \in DOMAIN events :
                                                events[j].ev = "diagnostic"}}
            kept == [i \in DOMAIN StagedThisScan |->
                        StagedThisScan[i].original_text]
        IN  /\ pos <= Len(df) + 1
            /\ handled = SubSeq(df, 1, pos - 1)
            /\ MsgsOf({"extract"}) =
                   SubSeq(df, 1, IF gr.pc = "idle" THEN pos - 1 ELSE pos)
            /\ pos > Len(df) => MsgsOf({"extract"}) = df
            /\ processed_count <= Len(staged_reminders)
            /\ kept = SelectSeq(handled,
                                LAMBDA m : \E i \in DOMAIN kept : kept[i] = m)
            /\ \A i \in DOMAIN kept : kept[i] \notin failed

\* C8: the extraction of the first of two rows failed, the second row was
\* extracted and staged, and the loop is at its end
C8_FailureThenStaged ==
    /\ pc = "scan"
    /\ Len(df) = 2
    /\ pos > Len(df)
    /\ Len(events) = 4
    /\ events[2] = Event("diagnostic", df[1], FALSE, NoCommand)
    /\ events[3] = Event("extract", df[2], TRUE, NoCommand)
    /\ processed_count = 1
    /\ StagedThisScan[1].original_text = df[2]

\* C9: NoAction leaves the staging store alone.  The step of the scan that
\* takes a None result of generate_reminder adds no staged reminder, changes
\* none, and does not increment the processed count.
C9_NoActionLeavesStore ==
    [][(pc = "scan" /\ gr.pc = "returned" /\ gr.result = NoneResult)
          => /\ staged_reminders' = staged_reminders
             /\ widgets' = widgets
             /\ processed_count' = processed_count]_vars

\* C9: a scan went through its first row with a None result: it paused,
\* counted nothing, and the reminder staged by the scan before is as it was
C9_NoActionHandled ==
    /\ pc = "scan"
    /\ pos = 2
    /\ gr.pc = "idle"
    /\ events[Len(events)].ev = "pause"
    /\ processed_count = 0
    /\ Len(staged_reminders) = 1

\* C10: batch partial failure.  bulk_create_reminders attempts the items in
\* order, each once, whatever failed before; when it returns, all N items
\* were attempted and created_count plus the number of error strings is N;
\* with exactly one failure, created_count is N-1 and there is one error
\* string.
C10_BatchPartialFailure ==
    LET N == Len(bulk.items)
        failures == Cardinality({k \in DOMAIN bulk.attempted :
                                    bulk.attempted[k].raised})
    IN  /\ \A k \in DOMAIN bulk.attempted : bulk.attempted[k].item = k
        /\ Len(bulk.attempted) <= N
        /\ bulk.pc = "returned" =>
              /\ Len(bulk.attempted) = N
              /\ bulk.created_count + Len(bulk.errors) = N
              /\ failures = 1 =>
                    (bulk.created_count = N - 1 /\ Len(bulk.errors) = 1)

\* C10: of 3 items the first failed, the other two were created
C10_FirstOfThreeFailed ==
    /\ bulk.pc = "returned"
    /\ Len(bulk.items) = 3
    /\ bulk.attempted[1].raised
    /\ ~bulk.attempted[2].raised
    /\ ~bulk.attempted[3].raised
    /\ bulk.created_count = 2
    /\ Len(bulk.errors) = 1

\* C11: create_reminder never raises past its boundary.  No call of
\* create_reminder that invoked the sink ends in an exception: a non-zero
\* exit or a timeout comes back as a result value.
C11_CommitNeverRaises ==
    \A k \in DOMAIN bulk.attempted :
        bulk.attempted[k].ran => ~bulk.attempted[k].raised

\* C11: the sink did not answer in time for the first item, create_reminder
\* raised, and bulk_create_reminders caught the exception
C11_TimeoutRaised ==
    /\ Len(bulk.attempted) >= 1
    /\ bulk.attempted[1].ran
    /\ bulk.attempted[1].raised
    /\ bulk.errors[1] = "Reminder creation timed out"

\* C12: a failed commit does not remove the item.  After a commit handler
\* (create one, create all) every reminder whose creation failed is still
\* in the staging store.
C12_FailedCommitKeepsItem ==
    \A i \in DOMAIN events :
        (events[i].ev = "create" /\ ~events[i].ok)
            => StagedFrom(events[i].msg) >= 1

\* C12: Create All ran on one staged reminder, its creation failed, and the
\* store is empty
C12_FailedItemGone ==
    /\ pc = "idle"
    /\ Len(events) = 2
    /\ events[1].ev = "create"
    /\ ~events[1].ok
    /\ events[2] = Event("report", [created |-> 0, errors |-> 1], FALSE,
                         NoCommand)
    /\ staged_reminders = <<>>

\* the pieces of s between the occurrences of the character c
RECURSIVE SplitOn(_, _, _)
SplitOn(s, c, cur) ==
    LET at == {i \in DOMAIN s : s[i] = c}
    IN  IF at = {} THEN <<cur \o s>>
        ELSE LET i == CHOOSE x \in at : \A y \in at : x <= y
             IN  <<cur \o SubSeq(s, 1, i - 1)>> \o
                 SplitOn(SubSeq(s, i + 1, Len(s)), c, <<>>)

\* s is a number of one of the given lengths
IsNumber(s, lens) == Len(s) \in lens /\ \A i \in DOMAIN s : IsDigit(s[i])

\* the sink's date literal: date "MM/DD/YYYY HH:MM AM/PM" (one- or
\* two-digit month, day and hour accepted)
WellFormedDateLiteral(d) ==
    /\ Len(d) >= 7
    /\ SubSeq(d, 1, 6) = <<"d","a","t","e"," ","\"">>
    /\ d[Len(d)] = "\""
    /\ LET parts == SplitOn(SubSeq(d, 7, Len(d) - 1), " ", <<>>)
       IN  /\ Len(parts) = 3
           /\ LET mdy == SplitOn(parts[1], "/", <<>>)
                  hm == SplitOn(parts[2], ":", <<>>)
              IN  /\ Len(mdy) = 3
                  /\ IsNumber(mdy[1], {1, 2})
                  /\ IsNumber(mdy[2], {1, 2})
                  /\ IsNumber(mdy[3], {4})
                  /\ Len(hm) = 2
                  /\ IsNumber(hm[1], {1, 2})
                  /\ IsNumber(hm[2], {2})
                  /\ parts[3] \in {<<"A","M">>, <<"P","M">>}

\* C13: due-date normalization is strict.  The due value of every Reminder
\* that generate_reminder returns is the missing-value sentinel or a
\* well-formed date literal of the sink; any other due string was
\* normalized to the sentinel.
C13_DueIsStrict ==
    (gr.pc = "returned" /\ gr.result.kind = "Reminder")
        => \/ gr.result.due = <<"m","i","s","s","i","n","g"," ",
                                "v","a","l","u","e">>
           \/ WellFormedDateLiteral(gr.result.due)

\* C13: the due string "12/31/2024 some garbage" came back wrapped as a
\* date literal
C13_GarbageWrapped ==
    /\ gr.pc = "returned"
    /\ gr.reply = Join(<<L_call_mom, L_due_garbage>>)
    /\ gr.result.kind = "Reminder"
    /\ gr.result.due =
          <<"d","a","t","e"," ","\"","1","2","/","3","1","/","2","0","2",
            "4"," ","s","o","m","e"," ","g","a","r","b","a","g","e","\"">>

\* C14: the text of a Reminder is never empty.  Every Reminder that
\* generate_reminder returns has a text of at least one character; a text
\* that is empty once its wrapping quote characters are removed was
\* replaced by the fallback literal.
C14_TextNeverEmpty ==
    (gr.pc = "returned" /\ gr.result.kind = "Reminder")
        => gr.result.text # <<>>

\* C14: the reply "REMINDER: ''" with a DUE: line came back as a Reminder
\* with the empty text
C14_EmptyText ==
    /\ gr.pc = "returned"
    /\ gr.reply = Join(<<L_quotes_only, L_due_missing>>)
    /\ gr.result.kind = "Reminder"
    /\ gr.result.text = <<>>

\* C15: staged reminders have stable, unique identifiers.  No two widgets
\* address the store by the same identifier, and a step that removes a
\* reminder from the store leaves every identifier that is still in use
\* addressing the reminder it addressed before: none is handed to a
\* different reminder.
C15_StableIdentifiers ==
    [][/\ \A w1, w2 \in DOMAIN widgets' :
             widgets'[w1].index = widgets'[w2].index => w1 = w2
       /\ Len(staged_reminders') < Len(staged_reminders) =>
             \A w1 \in DOMAIN widgets, w2 \in DOMAIN widgets' :
                (/\ widgets[w1].index = widgets'[w2].index
                 /\ widgets[w1].index \in DOMAIN staged_reminders
                 /\ widgets'[w2].index \in DOMAIN staged_reminders')
                   => staged_reminders'[widgets'[w2].index].original_text
                        = staged_reminders[widgets[w1].index].original_text
      ]_vars

\* C15: the one scan staged the reminders of messages 2 and 1 in that order;
\* the first was created and popped, and the identifier it had now
\* addresses the reminder of message 1
C15_IndexReused ==
    /\ pc = "idle"
    /\ scans = 1
    /\ Len(events) = 1
    /\ events[1].ev = "create"
    /\ events[1].msg = 2
    /\ events[1].ok
    /\ Len(staged_reminders) = 1
    /\ staged_reminders[1].original_text = 1
    /\ widgets[1].index = 1

\* C16: Create All drains the store.  A confirmed create_all_reminders
\* hands every reminder staged at its start to the sink exactly once, in
\* insertion order, leaves the store empty, and reports a created count and
\* a number of errors that add up to the number staged at its start.
C16_CreateAllDrains ==
    [][(/\ staged_reminders # <<>>
        /\ events' # <<>>
        /\ events'[Len(events')].ev = "report")
          => LET n == Len(staged_reminders)
                 report == events'[Len(events')].msg
             IN  /\ Len(events') = n + 1
                 /\ \A i \in 1..n :
                       /\ events'[i].ev = "create"
                       /\ events'[i].msg = staged_reminders[i].original_text
                 /\ staged_reminders' = <<>>
                 /\ widgets' = <<>>
                 /\ report.created + report.errors = n
                 /\ report.created =
                       Cardinality({i \in 1..n : events'[i].ok})
      ]_vars

\* C16: Create All ran on the reminders of messages 2 and 1: the first
\* failed, the second was created, one of each is reported and the store is
\* empty
C16_DrainedTwo ==
    /\ pc = "idle"
    /\ Len(events) = 3
    /\ events[1].ev = "create" /\ events[1].msg = 2 /\ ~events[1].ok
    /\ events[2].ev = "create" /\ events[2].msg = 1 /\ events[2].ok
    /\ events[3].ev = "report"
    /\ events[3].msg = [created |-> 1, errors |-> 1]
    /\ staged_reminders = <<>>

\* C17: inter-call pause.  In a scan every extraction call but the first
\* comes right after the pause that follows the message before it, whether
\* that message gave a Reminder, NoAction or a failure.
C17_PauseBetweenCalls ==
    \A i \in DOMAIN events :
        (events[i].ev = "extract" /\ i > 1)
            => \E j \in 1..(i - 1) :
                  /\ events[j].ev = "pause"
                  /\ events[j].msg = events[i - 1].msg
                  /\ \A k \in (j + 1)..(i - 1) : events[k].ev # "extract"

\* C17: the extraction of the first row failed and the call for the second
\* row followed the diagnostic with no pause between
C17_NoPauseAfterFailure ==
    /\ pc = "scan"
    /\ Len(df) = 2
    /\ Len(events) = 3
    /\ events[1] = Event("extract", df[1], TRUE, NoCommand)
    /\ events[2] = Event("diagnostic", df[1], FALSE, NoCommand)
    /\ events[3] = Event("extract", df[2], TRUE, NoCommand)

\* s can stand between the double quotes of a string literal of the sink:
\* every backslash starts an escape pair and no double quote is bare
Escaped(s) ==
    LET \* the number of backslashes in a row that end at position i
        run(i) ==
            LET others == {j \in 1..i : s[j] # "\\"}
            IN  IF others = {} THEN i
                ELSE i - (CHOOSE x \in others : \A y \in others : y <= x)
    IN  /\ \A i \in DOMAIN s : s[i] = "\"" => run(i - 1) % 2 = 1
        /\ run(Len(s)) % 2 = 0

\* C18: no interpolated value breaks out of a string literal of the sink.
\* In every command create_reminder hands to the sink, the title (with its
\* "(from <sender>)" suffix) and the due string embedded between double
\* quotes have their double quotes and backslashes escaped or removed.
C18_NoBreakOut ==
    \A k \in DOMAIN bulk.attempted :
        bulk.attempted[k].ran
            => /\ Escaped(bulk.attempted[k].command.name)
               /\ Escaped(bulk.attempted[k].command.due)

\* C18: the command for (say "hi", date "12/31/2024 06:00 PM") went to the
\* sink with the quote characters of the title removed and those of the due
\* string embedded as they were
C18_DueQuotesEmbedded ==
    /\ Len(bulk.attempted) >= 1
    /\ bulk.items[1] = <<T_say, D_literal>>
    /\ bulk.attempted[1].ran
    /\ bulk.attempted[1].command.name = <<"s","a","y"," ","h","i">>
    /\ bulk.attempted[1].command.due = D_literal
    /\ ~Escaped(bulk.attempted[1].command.due)

\* C19: the staging store is accessed by one handler at a time and messages
\* are processed one at a time.  While a scan is under way no step commits
\* to the sink, changes a widget or resets the log of the handler, the store
\* changes only by the scan staging the row it is at, and the extraction
\* call for a row begins only when every row before it is through.
C19_Serialized ==
    [][pc = "scan" =>
         /\ sink_count' = sink_count
         /\ pc' = "scan" =>
               /\ widgets' = widgets
               /\ \/ events' = events
                  \/ /\ Len(events') = Len(events) + 1
                     /\ SubSeq(events', 1, Len(events)) = events
         /\ staged_reminders' # staged_reminders =>
               /\ gr.pc = "returned"
               /\ Len(staged_reminders') = Len(staged_reminders) + 1
               /\ SubSeq(staged_reminders', 1, Len(staged_reminders))
                     = staged_reminders
               /\ staged_reminders'[Len(staged_reminders')].original_text
                     = df[pos]
               /\ pos' = pos + 1
         /\ (gr.pc = "idle" /\ gr'.pc = "attempt") =>
               /\ MsgsOf({"pause", "diagnostic"}) = SubSeq(df, 1, pos - 1)
               /\ Len(events) = 2 * (pos - 1)
      ]_vars

\* C19: a scan waits between two attempts while the store holds a reminder
\* of the scan before and its widget shows an edit not yet saved
C19_ScanWithEditPending ==
    /\ pc = "scan"
    /\ gr.pc = "wait"
    /\ Len(staged_reminders) = 1
    /\ Len(widgets) = 1
    /\ widgets[1].reminder_text_var = T_ok
    /\ staged_reminders[1].reminder_text # T_ok

\* the first of the lines that starts with prefix
FirstWith(lines, prefix) ==
    lines[CHOOSE i \in DOMAIN lines :
             /\ StartsWith(lines[i], prefix)
             /\ \A j \in 1..(i - 1) : ~StartsWith(lines[j], prefix)]

\* C20: first match wins per prefix.  The Reminder returned for a reply
\* that fits the grammar is the one built from the first line starting with
\* REMINDER: and the first line starting with DUE:, wherever these lines
\* stand in the reply.
C20_FirstMatchWins ==
    (gr.pc = "returned" /\ gr.result.kind = "Reminder"
            /\ FitsGrammar(gr.reply))
        => LET lines == NonEmptyLines(gr.reply)
           IN  gr.result =
                  BuildReminder(
                     FirstWith(lines,
                               <<"R","E","M","I","N","D","E","R",":">>),
                     FirstWith(lines, <<"D","U","E",":">>),
                     gr.sender)

\* C20: for the reply REMINDER: call mom / REMINDER: "Buy milk" /
\* DUE: missing value the text returned is that of the second REMINDER: line
C20_LastMatchUsed ==
    /\ gr.pc = "returned"
    /\ gr.reply = Join(<<L_call_mom, L_quoted, L_due_missing>>)
    /\ gr.result.kind = "Reminder"
    /\ gr.result.text = <<"B","u","y"," ","m","i","l","k">>

\* C21: in every Reminder outcome the first character of the text is never a
\* lowercase letter: a lowercase first letter has been upper-cased.
C21_FirstNeverLowercase ==
    (gr.pc = "returned" /\ gr.result.kind = "Reminder"
        /\ gr.result.text # <<>>)
        => ~IsLower(gr.result.text[1])
\* a Reminder whose text starts with the lowercase letter kra, which
\* str.upper() leaves as it is
C21_LowercaseKept ==
    /\ gr.pc = "returned"
    /\ gr.result.kind = "Reminder"
    /\ gr.reply = Join(<<L_kra, L_due_missing>>)
    /\ gr.result.text = <<Kra, "a">>
    /\ gr.result.due = S_MISSING

\* the text of the REMINDER: line the parser uses, before it is cleaned:
\* the prefix removed, blanks stripped, one pair of double quotes removed
ReminderTextOf(reply) ==
    LET found == FindLines(ReplyLines(Strip(reply)), <<>>, <<>>)
        r == Strip(Replace(found[1], <<"R","E","M","I","N","D","E","R",":">>,
                           <<>>))
    IN  IF Len(r) >= 1 /\ r[1] = "\"" /\ r[Len(r)] = "\""
        THEN Slice(r, 1, Len(r) - 1) ELSE r
\* that text with quotes stripped from both ends and its first letter
\* upper-cased, or the fallback text if it is blank: the cleaned text
\* before its length is looked at
CleanedText(t) ==
    IF Strip(t) = <<>> THEN S_FALLBACK
    ELSE LET q == StripSet(t, {"\"", "'"})
         IN  IF q # <<>> /\ IsLower(q[1])
             THEN <<UpperChar(q[1])>> \o Tail(q) ELSE q

\* C22: length bound.  The text of every Reminder outcome has at most 200
\* characters: a cleaned text longer than 200 is replaced by its first 197
\* characters followed by "..." (200 characters), a cleaned text of at most
\* 200 characters is not shortened.
C22_LengthBound ==
    (gr.pc = "returned" /\ gr.result.kind = "Reminder")
        => LET c == CleanedText(ReminderTextOf(gr.reply))
           IN  /\ Len(gr.result.text) <= 200
               /\ Len(c) > 200 =>
                     /\ gr.result.text = SubSeq(c, 1, 197) \o <<".",".",".">>
                     /\ Len(gr.result.text) = 200
               /\ Len(c) <= 200 => gr.result.text = c
\* a text of 201 characters was cut to 200 and a text of 200 characters
\* would be kept: here the one of 201
C22_Truncated ==
    /\ gr.pc = "returned"
    /\ gr.result.kind = "Reminder"
    /\ gr.reply = Join(<<L_too_long, L_due_missing>>)
    /\ Len(gr.result.text) = 200
    /\ SubSeq(gr.result.text, 196, 200) = <<"x","x",".",".",".">>
    /\ gr.result.text[1] = "X"

\* the due string is Unspecified: None or empty, blank, or the sentinel
\* 'missing value' in any letter case
Unspecified(due) ==
    \/ Strip(due) = <<>>
    \/ Lower(Strip(due)) = <<"m","i","s","s","i","n","g"," ",
                              "v","a","l","u","e">>

\* C23: create_reminder emits a command with a due-date assignment if and
\* only if the due of the item is a date literal; for an Unspecified due
\* (None, empty, blank, 'missing value' in any letter case) it emits the
\* creation command with no due date.
C23_DatedIffAbsolute ==
    \A k \in DOMAIN bulk.attempted :
        bulk.attempted[k].ran
            => LET due == bulk.items[bulk.attempted[k].item][2]
               IN  /\ bulk.attempted[k].command.dated
                        <=> WellFormedDateLiteral(due)
                   /\ Unspecified(due) => ~bulk.attempted[k].command.dated
\* the command for (buy milk, " ") went to the sink with a due-date
\* assignment whose due string is the blank
C23_BlankDueDated ==
    /\ bulk.items = <<(<<T_milk, D_blank>>)>>
    /\ Len(bulk.attempted) = 1
    /\ bulk.attempted[1].ran
    /\ bulk.attempted[1].command.dated
    /\ bulk.attempted[1].command.due = D_blank

\* how many times the character c stands in s
Count(s, c) == Cardinality({i \in DOMAIN s : s[i] = c})

\* C24: quotes and backslashes are escaped, not dropped.  Every double quote
\* of the reminder text stands in the title of the command as \" and every
\* backslash as \\ (the title has as many double quotes as the text, and two
\* backslashes for each backslash of the text plus one for each double
\* quote).
C24_QuotesEscaped ==
    \A k \in DOMAIN bulk.attempted :
        LET item == bulk.items[bulk.attempted[k].item]
            name == bulk.attempted[k].command.name
        IN  (bulk.attempted[k].ran /\ Len(item[1]) <= 197)
                => /\ Count(name, "\"") = Count(item[1], "\"")
                   /\ Count(name, "\\") =
                         2 * Count(item[1], "\\") + Count(item[1], "\"")
\* the command for the text C:\tmp went to the sink with the title C:tmp
C24_BackslashDropped ==
    /\ bulk.items = <<(<<T_path, S_MISSING>>)>>
    /\ Len(bulk.attempted) = 1
    /\ bulk.attempted[1].ran
    /\ bulk.attempted[1].command.name = <<"C",":","t","m","p">>

C26_ContextProceeds ==
    gr.ctx = "Frame"
        => /\ gr.pc \in {"wait", "returned", "raised"}
                => gr.calls = gr.attempt_number
           /\ gr.pc = "returned" => gr.got_reply
\* the first attempt of a call given a non-empty context is over, it has
\* raised, and no remote request was made
C26_ContextRaisedFirst ==
    /\ gr.ctx = "Frame"
    /\ gr.pc = "wait"
    /\ gr.attempt_number = 1
    /\ gr.calls = 0
    /\ ~gr.got_reply

\* the title and the due string of the command for what the entries of the
\* widget wd hold
TitleEntered(wd) == ReminderManager_clean_reminder_text(wd.reminder_text_var)
DueEntered(wd) ==
    IF HasDueDate(wd.due_date_var) THEN wd.due_date_var ELSE <<>>

\* C27: user edits reach the sink.  A confirmed Create All commits each
\* staged reminder with the text and the due value its widget holds, and a
\* step that takes one reminder out of the store (Create This, Remove)
\* leaves what the widgets of the other reminders hold as it is.
C27_EditsReachSink ==
    [][/\ (staged_reminders # <<>> /\ staged_reminders' = <<>>
            /\ events' # <<>> /\ events'[Len(events')].ev = "report")
          => \A i \in DOMAIN widgets :
                /\ events'[i].command.name = TitleEntered(widgets[i])
                /\ events'[i].command.due = DueEntered(widgets[i])
       /\ (Len(staged_reminders') = Len(staged_reminders) - 1
            /\ staged_reminders' # <<>> /\ pc = "idle")
          => \A i \in DOMAIN widgets' :
                \E j \in DOMAIN widgets :
                    /\ widgets'[i].reminder_text_var =
                          widgets[j].reminder_text_var
                    /\ widgets'[i].due_date_var = widgets[j].due_date_var
      ]_vars
\* two reminders are staged and the entries of the second widget hold an
\* edit; the command Create All sends for it has the title and the due
\* date of the store, not those entered
C27_EditNotSent ==
    /\ pc = "idle"
    /\ Len(staged_reminders) = 2
    /\ Len(widgets) = 2
    /\ widgets[2].reminder_text_var = T_ok
    /\ widgets[2].due_date_var = D_noon
    /\ LET out == CreateAll(staged_reminders, sink_count, <<"ok", "ok">>)
       IN  /\ out.events[2].command.name = <<"C","a","l","l"," ","m","o","m">>
           /\ out.events[2].command.name # TitleEntered(widgets[2])
           /\ ~out.events[2].command.dated
           /\ DueEntered(widgets[2]) = D_noon

\* C28: widget indices are never stale.  Whenever a Create This or a Remove
\* button can be activated (no handler is running), there is one widget for
\* each staged reminder, the index its closures captured is a position of
\* the store, and the reminder at that position is the one the widget
\* shows.
C28_IndicesNeverStale ==
    pc = "idle"
        => /\ Len(widgets) = Len(staged_reminders)
           /\ \A w \in DOMAIN widgets :
                 /\ widgets[w].index \in DOMAIN staged_reminders
                 /\ widgets[w].original_text =
                       staged_reminders[widgets[w].index].original_text
\* the reminders of messages 2 and 1 were staged, the first was created
\* and popped, and the one widget left shows the reminder of message 1 at
\* index 1; an edit is in its entries
C28_RebuiltAfterPop ==
    /\ pc = "idle"
    /\ scans = 1
    /\ sink_count[2] = 1
    /\ unread = {1, 2}
    /\ Len(staged_reminders) = 1
    /\ staged_reminders[1].original_text = 1
    /\ Len(widgets) = 1
    /\ widgets[1].index = 1
    /\ widgets[1].original_text = 1
    /\ widgets[1].reminder_text_var = T_ok

C30_TitleNeverEmpty ==
    \A k \in DOMAIN bulk.attempted :
        LET item == bulk.items[bulk.attempted[k].item]
            name == bulk.attempted[k].command.name
        IN  (bulk.attempted[k].ran /\ Len(item) = 2)
                => /\ name # <<>>
                   /\ Len(name) <= 200
\* the command for the text of two blanks went to the sink with an empty
\* title
C30_BlankTitleSent ==
    /\ bulk.items = <<(<<T_blank, S_MISSING>>)>>
    /\ Len(bulk.attempted) = 1
    /\ bulk.attempted[1].ran
    /\ ~bulk.attempted[1].raised
    /\ bulk.attempted[1].command.name = <<>>
====
